---- MODULE Spec2Model ----
(***************************************************************************)
(* Mistake Logger (app.py): the rule-based field extractor parse_text, the *)
(* validator is_valid_data, the sanitizer clean_text_field, the CSV append *)
(* save_to_csv and the Streamlit session around them.                      *)
(*                                                                         *)
(* Texts are TLA+ strings; a character is a string of length 1.  The check *)
(* mark U+2713 of the rule table is written "#" here, because the module's *)
(* character set is ASCII.                                                 *)
(***************************************************************************)
EXTENDS Integers, Sequences, FiniteSets, TLC

(***************************************************************************)
(* Characters and the str methods the program uses.                        *)
(***************************************************************************)
CheckMark == "#"

Ch(s, i) == SubSeq(s, i, i)

UPPER == "ABCDEFGHIJKLMNOPQRSTUVWXYZ"
LOWER == "abcdefghijklmnopqrstuvwxyz"

UpperSet == {Ch(UPPER, i) : i \in 1..Len(UPPER)}
LowerSet == {Ch(LOWER, i) : i \in 1..Len(LOWER)}
DigitSet == {"0","1","2","3","4","5","6","7","8","9"}
\* str.isspace / the regex class \s, over the characters of the model
SpaceSet == {" ", "\n", "\r", "\t"}

\* the letter of the alphabet `to` at the place c has in the alphabet `from`
Swap(c, from, to) == Ch(to, CHOOSE i \in 1..Len(from) : Ch(from, i) = c)

LowerCh(c) == IF c \in UpperSet THEN Swap(c, UPPER, LOWER) ELSE c
UpperCh(c) == IF c \in LowerSet THEN Swap(c, LOWER, UPPER) ELSE c

\* The least and the greatest element of a non-empty set of integers.
Min(S) == CHOOSE i \in S : \A j \in S : i <= j
Max(S) == CHOOSE i \in S : \A j \in S : i >= j

RECURSIVE MapCase(_, _)
\* s with every character lowered (up = FALSE) or raised (up = TRUE)
MapCase(s, up) ==
  IF s = "" THEN ""
  ELSE IF Len(s) = 1 THEN (IF up THEN UpperCh(s) ELSE LowerCh(s))
  ELSE LET h == Len(s) \div 2
       IN MapCase(SubSeq(s, 1, h), up) \o MapCase(SubSeq(s, h + 1, Len(s)), up)

\* str.lower()
Lower(s) == MapCase(s, FALSE)

\* first character upper case, the rest as it is
UpperFirst(s) ==
  IF s = "" THEN "" ELSE UpperCh(Ch(s, 1)) \o SubSeq(s, 2, Len(s))

\* str.capitalize(): first character upper case, the rest lower case
Capitalize(s) ==
  IF s = "" THEN "" ELSE UpperCh(Ch(s, 1)) \o Lower(SubSeq(s, 2, Len(s)))

\* str.strip()
Strip(s) ==
  LET keep == {i \in 1..Len(s) : Ch(s, i) \notin SpaceSet}
  IN IF keep = {} THEN "" ELSE SubSeq(s, Min(keep), Max(keep))

\* str.find(sub) from position i on: the first index where sub occurs, 0 if none
Find(s, sub, i) ==
  LET at == {j \in i..(Len(s) - Len(sub) + 1) : SubSeq(s, j, j + Len(sub) - 1) = sub}
  IN IF at = {} THEN 0 ELSE Min(at)

\* sub in s
Contains(s, sub) == Find(s, sub, 1) # 0

RECURSIVE Split(_, _)
\* str.split(sep) for a one-character separator
Split(s, sep) ==
  LET i == Find(s, sep, 1)
  IN IF i = 0 THEN <<s>>
     ELSE <<SubSeq(s, 1, i - 1)>> \o Split(SubSeq(s, i + 1, Len(s)), sep)

(***************************************************************************)
(* re.search with IGNORECASE | DOTALL | MULTILINE (line 86-87).            *)
(* A pattern is a sequence of atoms.  Matching runs on the lowered text,   *)
(* which is what IGNORECASE amounts to for the ASCII rule table; the       *)
(* captured value is cut from the original text.  The matcher backtracks   *)
(* in the order of Python's re: a greedy star takes the longer match       *)
(* first, a lazy star the shorter, an alternation its alternatives from    *)
(* left to right.                                                          *)
(***************************************************************************)
Lit(s) == [k |-> "lit", s |-> Lower(s)]
One(c) == [k |-> "one", c |-> c]
Star(c) == [k |-> "star", c |-> c]
Lazy(c) == [k |-> "lazy", c |-> c]
Open == [k |-> "open"]
Close == [k |-> "close"]
Look(alts) == [k |-> "look", alts |-> alts]
Alt(alts) == [k |-> "alt", alts |-> alts]
Bol == [k |-> "bol"]
Eol == [k |-> "eol"]
Wb == [k |-> "wb"]

WordSet == LowerSet \cup DigitSet \cup {"_"}

\* Whether the lowered character ch is in the character class c.
InClass(c, ch) ==
  CASE c = "any" -> TRUE                                      \* .  (DOTALL)
    [] c = "space" -> ch \in SpaceSet                         \* \s
    [] c = "digit" -> ch \in DigitSet                         \* \d
    [] c = "word" -> ch \in WordSet                           \* \w
    [] c = "alpha" -> ch \in LowerSet                         \* [A-Z]
    [] c = "alphaSpace" -> ch \in LowerSet \cup SpaceSet      \* [a-zA-Z\s]
    [] c = "alphaSpaceColon" -> ch \in LowerSet \cup SpaceSet \cup {":"}
    [] c = "colonSpace" -> ch \in SpaceSet \cup {":"}         \* [:\s]
    [] c = "ivx" -> ch \in {"i", "v", "x"}                    \* [IVX]
    [] c = "notNl" -> ch # "\n"                               \* [^\n]
    [] c = "notNlCr" -> ch \notin {"\n", "\r"}                \* [^\n\r]

\* Whether position i of lt holds a word character (for \b).
IsWordAt(lt, i) == i >= 1 /\ i <= Len(lt) /\ Ch(lt, i) \in WordSet

NoMatch == [ok |-> FALSE, s |-> 0, e |-> 0, gs |-> 0, ge |-> 0]

RECURSIVE M(_, _, _, _, _, _, _)
\* The match of atoms k.. of re at position pos of the lowered text lt, for a
\* match that started at s0; gs, ge are the bounds of group 1 so far.
M(re, k, lt, s0, pos, gs, ge) ==
  IF k > Len(re) THEN [ok |-> TRUE, s |-> s0, e |-> pos, gs |-> gs, ge |-> ge]
  ELSE
    LET a == re[k]
        n == Len(lt)
        here == pos <= n /\ InClass(a.c, Ch(lt, pos))
        \* the first position from pos on whose character is not in the class
        runEnd == CHOOSE j \in pos..(n + 1) :
                    /\ j = n + 1 \/ ~InClass(a.c, Ch(lt, j))
                    /\ \A i \in pos..(j - 1) : InClass(a.c, Ch(lt, i))
        ends == {j \in pos..runEnd : M(re, k + 1, lt, s0, j, gs, ge).ok}
    IN CASE a.k = "lit" ->
              IF pos + Len(a.s) - 1 <= n /\ SubSeq(lt, pos, pos + Len(a.s) - 1) = a.s
              THEN M(re, k + 1, lt, s0, pos + Len(a.s), gs, ge) ELSE NoMatch
         [] a.k = "one" ->
              IF here THEN M(re, k + 1, lt, s0, pos + 1, gs, ge) ELSE NoMatch
         [] a.k = "star" ->       \* greedy: the longest run that lets the rest match
              IF ends = {} THEN NoMatch ELSE M(re, k + 1, lt, s0, Max(ends), gs, ge)
         [] a.k = "lazy" ->       \* lazy: the shortest
              IF ends = {} THEN NoMatch ELSE M(re, k + 1, lt, s0, Min(ends), gs, ge)
         [] a.k = "open" -> M(re, k + 1, lt, s0, pos, pos, ge)
         [] a.k = "close" -> M(re, k + 1, lt, s0, pos, gs, pos)
         [] a.k = "look" ->
              IF \E i \in 1..Len(a.alts) : M(a.alts[i], 1, lt, pos, pos, 0, 0).ok
              THEN M(re, k + 1, lt, s0, pos, gs, ge) ELSE NoMatch
         [] a.k = "alt" ->
              LET rest == SubSeq(re, k + 1, Len(re))
                  good == {i \in 1..Len(a.alts) :
                             M(a.alts[i] \o rest, 1, lt, s0, pos, gs, ge).ok}
              IN IF good = {} THEN NoMatch
                 ELSE M(a.alts[Min(good)] \o rest, 1, lt, s0, pos, gs, ge)
         [] a.k = "bol" ->
              IF pos = 1 \/ Ch(lt, pos - 1) = "\n"
              THEN M(re, k + 1, lt, s0, pos, gs, ge) ELSE NoMatch
         [] a.k = "eol" ->
              IF pos = n + 1 \/ Ch(lt, pos) = "\n"
              THEN M(re, k + 1, lt, s0, pos, gs, ge) ELSE NoMatch
         [] a.k = "wb" ->
              IF IsWordAt(lt, pos - 1) # IsWordAt(lt, pos)
              THEN M(re, k + 1, lt, s0, pos, gs, ge) ELSE NoMatch

\* re.search(pattern, raw_text, flags): the leftmost match, or NoMatch
Search(re, text) ==
  LET lt == Lower(text)
      starts == {s \in 1..(Len(lt) + 1) : M(re, 1, lt, s, s, 0, 0).ok}
  IN IF starts = {} THEN NoMatch ELSE M(re, 1, lt, Min(starts), Min(starts), 0, 0)

\* match.groups() is non-empty: the pattern has a capturing group
HasGroup(re) == \E i \in 1..Len(re) : re[i].k = "open"

\* match.group(1).strip() if match.groups() else match.group(0).strip()
MatchValue(re, text, m) ==
  IF HasGroup(re) THEN Strip(SubSeq(text, m.gs, m.ge - 1))
  ELSE Strip(SubSeq(text, m.s, m.e - 1))

(***************************************************************************)
(* PARSING_RULES (lines 23-71): field -> its patterns, in listed order.    *)
(***************************************************************************)
Plus(c) == <<One(c), Star(c)>>
LazyPlus(c) == <<One(c), Lazy(c)>>
NOfM == Plus("digit") \o Plus("space") \o <<Lit("of")>> \o Plus("space") \o Plus("digit")
MMSS == <<One("digit"), One("digit"), Lit(":"), One("digit"), One("digit")>>
LineEnd == Look(<< <<Lit("\n")>>, <<Eol>> >>)
LineEndOrContinue == Look(<< <<Lit("\n")>>, <<Eol>>, <<Lit("Continue")>> >>)

FIELDS ==
  <<"Category", "Question Number", "Result", "Question Text",
    "Confidence Level", "Time Spent", "Difficulty Level">>

PARSING_RULES ==
  [f \in {FIELDS[i] : i \in 1..Len(FIELDS)} |->
   CASE f = "Category" -> <<
        <<Lit("Application of the Code and Standards: Level II")>>,
        <<Open, One("alpha")>> \o Plus("alphaSpaceColon") \o <<Lit("Level")>>
           \o Plus("space") \o Plus("ivx") \o <<Close>>,
        <<Lit("Review Category")>> \o Plus("colonSpace") \o <<Open, Lazy("any"), Close,
           Look(<< <<Lit("\n")>>, <<Lit("Question")>> >>)>>,
        <<Lit("Done Practicing"), Star("space"), Open, One("alpha")>>
           \o LazyPlus("alphaSpace") \o <<Close,
           Look(<< <<Star("space"), Lit("Question")>>,
                   <<Star("space")>> \o NOfM,
                   <<Lit("\n")>>, <<Eol>> >>)>>,
        <<Lit("\n"), Star("space"), Open, One("alpha")>> \o LazyPlus("alphaSpace")
           \o <<Close, Star("space"), Lit("\n"), Star("space"),
                Lit("demonstrate the use")>>,
        <<Bol, Open, Lazy("any"), Close, Lit("\n")>> >>
     [] f = "Question Number" -> <<
        <<Lit("Question")>> \o Plus("space") \o <<Open>> \o NOfM \o <<Close>>,
        <<Lit("Question")>> \o Plus("colonSpace") \o <<Open>> \o Plus("digit")
           \o <<Lit(" of ")>> \o Plus("digit") \o <<Close>>,
        <<Open>> \o NOfM \o <<Close>> >>
     [] f = "Result" -> <<
        <<Lit("Your result is "), Open>> \o Plus("word") \o <<Close, Lit(".")>>,
        <<Lit(CheckMark), Lazy("any"), Open, Lit("Correct"), Close>>,
        <<Wb, Open, Alt(<< <<Lit("Correct")>>, <<Lit("Incorrect")>> >>), Close, Wb>>,
        <<Lit("Correct Answer"), Lazy("any"), Lit("Your Answer"), Lazy("any"),
          Open, One("alpha"), Close, Star("space"), Lit(CheckMark)>> >>
     [] f = "Question Text" -> <<
        <<Lit("Question"), Star("space"), Lit("\n"), Open, Lazy("any"), Close,
          Look(<< <<Star("space"), Lit("A."), Star("space"), Eol>>,
                  <<Star("space"), Lit("A."), Star("space"), Lit("\n")>>,
                  <<Star("space"), Lit("Solution")>> >>)>>,
        <<Lit("Question"), Star("space"), Lit("\n"), Star("space"), Open, Lazy("any"),
          Close, Look(<< <<Star("space"), Lit("Did"), Star("any"), Lit("violate")>> >>)>>,
        <<Lit("Question"), Star("space"), Lit("\n"), Open, Lazy("any"), Close,
          Look(<< <<Star("space"), Lit("A.")>>, <<Lit("Solution")>> >>)>>,
        <<Alt(<< <<Bol>>, <<Lit("\n")>> >>), Star("space"), Lit("Question"),
          Star("space"), Lit("\n"), Open, Lazy("any"), Close,
          Look(<< <<Lit("\nSolution")>>, <<Lit("\nA.")>> >>)>>,
        <<Lit("Question")>> \o Plus("space") \o <<Open, Lazy("any"), Close,
          Look(<< <<Lit("\nA.")>>, <<Lit("\nSolution")>> >>)>>,
        <<Lit("Question")>> \o Plus("space") \o <<Open, Lazy("any"), Close,
          Look(<< <<Star("space"), Lit("A."), Star("space"), Lit("lower")>>,
                  <<Star("space"), Lit("Solution")>> >>)>> >>
     [] f = "Confidence Level" -> <<
        <<Lit("Confidence Level:"), Star("space"), Open, Lazy("notNlCr"), Close,
          LineEndOrContinue>>,
        <<Lit("Confidence Level:"), Lazy("notNl"), Lit("\n"), Open, Lazy("notNlCr"),
          Close, LineEndOrContinue>> >>
     [] f = "Time Spent" -> <<
        <<Lit("Total:"), Star("space"), Open>> \o MMSS \o <<Close>>,
        <<Lit("This Question:"), Star("space"), Open>> \o MMSS \o <<Close>>,
        <<Lit("Time Spent:"), Star("space"), Open>> \o Plus("digit")
           \o <<Lit(" sec"), Alt(<< <<Lit("s")>>, <<>> >>), Close>>,
        <<Lit("Time Spent:"), Star("space"), Open, Lazy("notNl"), Close, LineEnd>> >>
     [] f = "Difficulty Level" -> <<
        <<Lit("Difficulty Level:"), Star("space"), Open, Lazy("notNl"), Close,
          LineEnd>> >>]


(***************************************************************************)
(* int(): surrounding whitespace, one sign, digits, single underscores     *)
(* between digits.  Anything else raises ValueError.                       *)
(***************************************************************************)
RECURSIVE DigitsOk(_, _)
DigitsOk(s, i) ==
  IF i > Len(s) THEN TRUE
  ELSE IF Ch(s, i) \in DigitSet THEN DigitsOk(s, i + 1)
  ELSE Ch(s, i) = "_" /\ i > 1 /\ i < Len(s) /\ Ch(s, i - 1) \in DigitSet
       /\ Ch(s, i + 1) \in DigitSet /\ DigitsOk(s, i + 1)

RECURSIVE DigitsValue(_, _, _)
DigitsValue(s, i, acc) ==
  IF i > Len(s) THEN acc
  ELSE IF Ch(s, i) = "_" THEN DigitsValue(s, i + 1, acc)
  ELSE DigitsValue(s, i + 1, 10 * acc + Find("0123456789", Ch(s, i), 1) - 1)

Unsigned(s) ==
  LET t == Strip(s)
  IN IF t # "" /\ Ch(t, 1) \in {"+", "-"} THEN SubSeq(t, 2, Len(t)) ELSE t

\* int(s) returns (TRUE) or raises ValueError (FALSE)
IntOk(s) == Unsigned(s) # "" /\ DigitsOk(Unsigned(s), 1)

\* the value int(s) returns
IntValue(s) ==
  LET t == Strip(s)
      v == DigitsValue(Unsigned(s), 1, 0)
  IN IF Ch(t, 1) = "-" THEN 0 - v ELSE v

(***************************************************************************)
(* parse_text (lines 75-125) as a function of its argument.  A call either *)
(* returns a value or raises; an outcome [exc, value] says which.          *)
(***************************************************************************)
None == [none |-> TRUE]
Raised == [raised |-> TRUE]

Returns(value) == [exc |-> "", value |-> value]
Raises(exc) == [exc |-> exc, value |-> ""]

\* an except clause that names IndexError alone
CaughtIndexErrorOnly(exc) == exc = "IndexError"

\* line 115: except (ValueError, IndexError)
Caught(exc) == exc \in {"ValueError", "IndexError"}

\* a range check that lets 60 seconds through
InRangeUpTo60(minutes, seconds) ==
  0 <= minutes /\ minutes <= 999 /\ 0 <= seconds /\ seconds <= 60

\* line 109
InRange(minutes, seconds) ==
  0 <= minutes /\ minutes <= 999 /\ 0 <= seconds /\ seconds <= 59

\* lines 111-114
Render(minutes, seconds) ==
  IF minutes = 0 THEN ToString(seconds) \o " secs"
  ELSE ToString(minutes) \o " mins " \o ToString(seconds) \o " secs"

\* lines 99-116: the Time Spent branch
NormalizeTime(value) ==
  IF Contains(Lower(value), "sec") THEN Returns(value)
  ELSE IF Contains(value, ":") THEN
    LET time_parts == Split(value, ":")
    IN IF Len(time_parts) = 2 THEN
         IF IntOk(time_parts[1]) /\ IntOk(time_parts[2]) THEN
           LET minutes == IntValue(time_parts[1])
               seconds == IntValue(time_parts[2])
           IN IF InRange(minutes, seconds) THEN Returns(Render(minutes, seconds))
              ELSE Returns(value)
         ELSE IF Caught("ValueError") THEN Returns(value)   \* pass
         ELSE Raises("ValueError")
       ELSE Returns(value)
  ELSE Returns(value)

\* lines 96-116: the special handling of a matched value
Normalize(field, value) ==
  IF field = "Result" THEN Returns(Capitalize(value))
  ELSE IF field = "Time Spent" THEN NormalizeTime(value)
  ELSE Returns(value)

\* lines 88-118: what a match m of pattern i of the field gives
ValueOf(field, i, raw_text, m) ==
  Normalize(field, MatchValue(PARSING_RULES[field][i], raw_text, m))

\* a loop without the break: the pattern after the matching one is next
AfterMatchNoBreak(i, count) == i + 1

\* line 120: the pattern index after a match; break leaves the loop
AfterMatch(i, count) == count + 1

RECURSIVE FieldFrom(_, _, _)

\* lines 87-123: after re.search gave m for pattern i of the field
Tried(field, raw_text, i, m) ==
  IF m.ok THEN ValueOf(field, i, raw_text, m)
  ELSE FieldFrom(field, raw_text, i + 1)

\* lines 83-123: the inner loop from pattern i on
FieldFrom(field, raw_text, i) ==
  IF i > Len(PARSING_RULES[field]) THEN Returns("")
  ELSE Tried(field, raw_text, i, Search(PARSING_RULES[field][i], raw_text))

\* a blank test without the strip
IsEmpty(raw_text) == raw_text = ""

\* line 77: not raw_text or not raw_text.strip()
IsBlank(raw_text) == raw_text = "" \/ Strip(raw_text) = ""

\* line 125: the record returned, unless the loop raised
Collected(out) ==
  IF \E field \in DOMAIN out : out[field].exc # "" THEN Raised
  ELSE [field \in DOMAIN out |-> out[field].value]

parse_text(raw_text) ==
  IF IsBlank(raw_text) THEN None
  ELSE Collected([field \in DOMAIN PARSING_RULES |-> FieldFrom(field, raw_text, 1)])

(***************************************************************************)
(* State.                                                                  *)
(*   pt_*   one call of parse_text, statement by statement                 *)
(*          (pt_searched, pt_matched: the patterns evaluated and those     *)
(*          that matched, as pairs of field and place in the list);        *)
(*          rule_table is the module-level dict PARSING_RULES as the calls *)
(*          find it: for each field the list of its patterns, each pattern *)
(*          (an immutable string) named by its place in lines 23-71;       *)
(*          pt_calls is the calls that returned so far, in order, each as  *)
(*          the text passed and the value returned                         *)
(*   tv_*   one pass of a matched Time Spent value through lines 99-116    *)
(*   san_*  clean_text_field applied to a text, and to its own result      *)
(*   val_*  one call of is_valid_data                                      *)
(*   the Streamlit session: st.session_state (parsed_data,                 *)
(*   saved_successfully, text_input_key, notes_input_key), the contents of *)
(*   the two text areas (raw_text_input, notes_input), the file            *)
(*   mistake_log.csv (csv_exists, csv_headers: its header lines,           *)
(*   csv_columns: the column names of its first line, csv_rows: its data   *)
(*   lines, each the list of its cells), the file uploader's files         *)
(*   (uploader_key), files_processed, show_delete_mode and                 *)
(*   selected_for_deletion of st.session_state, how often each uploaded    *)
(*   file has been merged since it was put into the uploader               *)
(*   (merged_times), how many times the user has acted on the log part of  *)
(*   the page (clicks), the wall clock in seconds (now) and whether st.rerun  *)
(*   has been called and the next run is still due (rerun)                 *)
(*   lk_*   save_to_csv called by several script threads at once: where    *)
(*   each thread is (lk_pc), the attribute save_to_csv._lock (lk_attr, 0   *)
(*   while the attribute is not set, else the lock object), who holds each *)
(*   lock object (lk_owner), the lock each thread's with statement took    *)
(*   (lk_with), each thread's local file_exists, its number of saves       *)
(***************************************************************************)
VARIABLES pt_raw_text, pt_pc, pt_fi, pt_pi, pt_match, pt_found, pt_parsed_data,
          pt_searched, pt_matched, pt_return, pt_calls, rule_table

VARIABLES tv_value, tv_pc, tv_out
VARIABLES san_text, san_pc, san_once, san_twice
VARIABLES val_data, val_pc, val_verdict
VARIABLES parsed_data, saved_successfully, text_input_key, notes_input_key,
          raw_text_input, notes_input, csv_exists, csv_headers, csv_columns,
          csv_rows, now, rerun

VARIABLES uploader_key, files_processed, show_delete_mode, selected_for_deletion,
          merged_times, clicks

VARIABLES lk_pc, lk_attr, lk_owner, lk_with, lk_file_exists, lk_saves

sessVars == <<parsed_data, saved_successfully, text_input_key, notes_input_key,
              raw_text_input, notes_input, now, rerun>>
csvVars == <<csv_exists, csv_headers, csv_columns, csv_rows>>
uiVars == <<uploader_key, files_processed, show_delete_mode, selected_for_deletion,
            merged_times, clicks>>
lkVars == <<lk_pc, lk_attr, lk_owner, lk_with, lk_file_exists, lk_saves>>
tvVars == <<tv_value, tv_pc, tv_out>>
sanVars == <<san_text, san_pc, san_once, san_twice>>
valVars == <<val_data, val_pc, val_verdict>>
ptVars == <<pt_raw_text, pt_pc, pt_fi, pt_pi, pt_match, pt_found, pt_parsed_data,
            pt_searched, pt_matched, pt_return, pt_calls, rule_table>>

(***************************************************************************)
(* The texts parse_text is called with: up to MaxLines lines of a review   *)
(* screen, in screen order.                                                *)
(***************************************************************************)
MaxLines == 2

LINES ==
  <<" \t\n",
    "Done Practicing Fixed Income\n",
    "Application of the Code and Standards: Level II\n",
    "Ethics: Level IV\n",
    "Review Category: Quant\n",
    "Question 1 of 2\n",
    "Question: 3 of 4\n",
    "7 of 9 INCORRECT\n",
    "Question\nDid he violate it\n",
    "A. lower\n",
    "Equity\ndemonstrate the use\n",
    "Solution\n",
    "Your result is correct.\n",
    "# Correct Answer Your Answer B #\n",
    "Confidence Level: High\n",
    "Confidence Level:\r\nLow Continue\n",
    "Total: 00:03\n",
    "This Question:01:36\n",
    "Time Spent: 12 sec\n",
    "Time Spent: abc:def\n",
    "Difficulty Level: Medium",
    "\r\n  ">>

Last(q) == IF q = <<>> THEN 0 ELSE q[Len(q)]

RECURSIVE Picks(_)
\* the strictly increasing sequences of at most k line numbers
Picks(k) ==
  IF k = 0 THEN {<<>>}
  ELSE LET shorter == Picks(k - 1)
       IN shorter \cup
          UNION {{Append(q, j) : j \in (Last(q) + 1)..Len(LINES)} : q \in shorter}

RECURSIVE Join(_)
Join(q) == IF q = <<>> THEN "" ELSE LINES[Head(q)] \o Join(Tail(q))

ParseTexts == {Join(q) : q \in Picks(MaxLines)}

(***************************************************************************)
(* parse_text, one statement at a time.                                    *)
(***************************************************************************)
NotReturned == [returned |-> FALSE]

\* lines 23-71, as the import leaves the dict
RuleRefs == [f \in DOMAIN PARSING_RULES |-> [i \in 1..Len(PARSING_RULES[f]) |-> i]]

\* the pattern at place i of the field's list
RuleAt(field, i) == rule_table[field][i]

\* a list that moves the pattern that matched to its front
HitMovedToFront(rules, field, i) ==
  [rules EXCEPT ![field] =
     <<rules[field][i]>> \o SubSeq(rules[field], 1, i - 1)
                        \o SubSeq(rules[field], i + 1, Len(rules[field]))]

\* lines 88-120: a match reads PARSING_RULES and assigns nothing to it
RulesAfterHit(rules, field, i) == rules

PtInit ==
  /\ pt_raw_text \in ParseTexts
  /\ pt_pc = "call"
  /\ pt_fi = 1
  /\ pt_pi = 1
  /\ pt_match = NoMatch
  /\ pt_found = FALSE
  /\ pt_parsed_data = <<>>
  /\ pt_searched = {}
  /\ pt_matched = {}
  /\ pt_return = NotReturned
  /\ pt_calls = <<>>
  /\ rule_table = RuleRefs

\* lines 77-80
PtEnter ==
  /\ pt_pc = "call"
  /\ IF IsBlank(pt_raw_text)
     THEN /\ pt_pc' = "done" /\ pt_return' = None
          /\ pt_calls' = Append(pt_calls, <<pt_raw_text, None>>)
     ELSE /\ pt_pc' = "for" /\ pt_return' = pt_return
          /\ pt_calls' = pt_calls
  /\ UNCHANGED <<pt_raw_text, pt_fi, pt_pi, pt_match, pt_found, pt_parsed_data,
                 pt_searched, pt_matched, rule_table>>

\* lines 84-87: the next pattern of the field, match = re.search(...)
PtSearch ==
  /\ pt_pc = "for"
  /\ pt_fi <= Len(FIELDS)
  /\ pt_pi <= Len(rule_table[FIELDS[pt_fi]])
  /\ pt_match' = Search(PARSING_RULES[FIELDS[pt_fi]][RuleAt(FIELDS[pt_fi], pt_pi)],
                        pt_raw_text)
  /\ pt_searched' = pt_searched \cup {<<FIELDS[pt_fi], pt_pi>>}
  /\ pt_pc' = "if"
  /\ UNCHANGED <<pt_raw_text, pt_fi, pt_pi, pt_found, pt_parsed_data, pt_matched,
                 pt_return, pt_calls, rule_table>>

\* line 88: if match, with no match; the loop goes on
PtMiss ==
  /\ pt_pc = "if"
  /\ ~pt_match.ok
  /\ pt_pi' = pt_pi + 1
  /\ pt_pc' = "for"
  /\ UNCHANGED <<pt_raw_text, pt_fi, pt_match, pt_found, pt_parsed_data,
                 pt_searched, pt_matched, pt_return, pt_calls, rule_table>>

\* the step of PtHit, for the outcome got of lines 90-116
Stored(field, got) ==
  IF got.exc # ""
  THEN /\ pt_pc' = "raised"
       /\ UNCHANGED <<pt_pi, pt_found, pt_parsed_data>>
  ELSE /\ pt_pc' = "for"
       /\ pt_parsed_data' = (field :> got.value) @@ pt_parsed_data
       /\ pt_found' = TRUE
       /\ pt_pi' = AfterMatch(pt_pi, Len(rule_table[field]))

\* lines 88-120: if match, with a match; the value is stored, break
PtHit ==
  /\ pt_pc = "if"
  /\ pt_match.ok
  /\ pt_matched' = pt_matched \cup {<<FIELDS[pt_fi], pt_pi>>}
  /\ Stored(FIELDS[pt_fi],
            ValueOf(FIELDS[pt_fi], RuleAt(FIELDS[pt_fi], pt_pi), pt_raw_text, pt_match))
  /\ rule_table' = RulesAfterHit(rule_table, FIELDS[pt_fi], pt_pi)
  /\ UNCHANGED <<pt_raw_text, pt_fi, pt_match, pt_searched, pt_return, pt_calls>>

\* lines 122-123 and the next round of the outer loop (lines 82-83)
PtEndField ==
  /\ pt_pc = "for"
  /\ pt_fi <= Len(FIELDS)
  /\ pt_pi > Len(rule_table[FIELDS[pt_fi]])
  /\ pt_parsed_data' = IF pt_found THEN pt_parsed_data
                       ELSE (FIELDS[pt_fi] :> "") @@ pt_parsed_data
  /\ pt_fi' = pt_fi + 1
  /\ pt_pi' = 1
  /\ pt_found' = FALSE
  /\ UNCHANGED <<pt_raw_text, pt_pc, pt_match, pt_searched, pt_matched, pt_return,
                 pt_calls, rule_table>>

\* line 125
PtReturn ==
  /\ pt_pc = "for"
  /\ pt_fi > Len(FIELDS)
  /\ pt_pc' = "done"
  /\ pt_return' = pt_parsed_data
  /\ pt_calls' = Append(pt_calls, <<pt_raw_text, pt_parsed_data>>)
  /\ UNCHANGED <<pt_raw_text, pt_fi, pt_pi, pt_match, pt_found, pt_parsed_data,
                 pt_searched, pt_matched, rule_table>>

(***************************************************************************)
(* Several calls of parse_text, one after the other.                       *)
(***************************************************************************)
MaxCalls == 3

CallTexts == {Join(q) : q \in {<<1>>, <<3>>, <<4, 13>>, <<2, 8>>}}

PtInitCalls ==
  /\ pt_raw_text \in CallTexts
  /\ pt_pc = "call"
  /\ pt_fi = 1
  /\ pt_pi = 1
  /\ pt_match = NoMatch
  /\ pt_found = FALSE
  /\ pt_parsed_data = <<>>
  /\ pt_searched = {}
  /\ pt_matched = {}
  /\ pt_return = NotReturned
  /\ pt_calls = <<>>
  /\ rule_table = RuleRefs

\* line 75: the next call, with new locals
PtCall(text) ==
  /\ pt_pc = "done"
  /\ Len(pt_calls) < MaxCalls
  /\ pt_raw_text' = text
  /\ pt_pc' = "call"
  /\ pt_fi' = 1
  /\ pt_pi' = 1
  /\ pt_match' = NoMatch
  /\ pt_found' = FALSE
  /\ pt_parsed_data' = <<>>
  /\ pt_searched' = {}
  /\ pt_matched' = {}
  /\ pt_return' = NotReturned
  /\ UNCHANGED <<pt_calls, rule_table>>

PtIdle ==
  /\ pt_raw_text = ""
  /\ pt_pc = "idle"
  /\ pt_fi = 1
  /\ pt_pi = 1
  /\ pt_match = NoMatch
  /\ pt_found = FALSE
  /\ pt_parsed_data = <<>>
  /\ pt_searched = {}
  /\ pt_matched = {}
  /\ pt_return = NotReturned
  /\ pt_calls = <<>>
  /\ rule_table = RuleRefs

(***************************************************************************)
(* The Time Spent normalization (lines 99-116) on its own.                 *)
(***************************************************************************)
MaxTimeParts == 3

TIME_TOKENS == {"00", "01", "03", "3", "36", "60", "999", "1000", ":", "sec", "S", "x", " ", "-"}

RECURSIVE Glued(_, _)
\* the concatenations of at most k elements of the set tokens
Glued(tokens, k) ==
  IF k = 0 THEN {""}
  ELSE LET shorter == Glued(tokens, k - 1)
       IN shorter \cup {q \o c : q \in shorter, c \in tokens}

TimeValues == Glued(TIME_TOKENS, MaxTimeParts)

TvInit ==
  /\ tv_value \in TimeValues
  /\ tv_pc = "call"
  /\ tv_out = NotReturned

TvNormalize ==
  /\ tv_pc = "call"
  /\ tv_pc' = "done"
  /\ tv_out' = NormalizeTime(tv_value)
  /\ UNCHANGED tv_value

TvIdle == tv_value = "" /\ tv_pc = "idle" /\ tv_out = NotReturned

(***************************************************************************)
(* clean_text_field (lines 133-141).                                       *)
(***************************************************************************)
RECURSIVE ReplaceNewlines(_, _, _)
\* line 138: re.sub(r'\r?\n', ' ', text), positions lo..hi of text
ReplaceNewlines(text, lo, hi) ==
  IF lo > hi THEN ""
  ELSE IF lo = hi THEN
    IF Ch(text, lo) = "\n" THEN " "
    ELSE IF Ch(text, lo) = "\r" /\ lo < Len(text) /\ Ch(text, lo + 1) = "\n" THEN ""
    ELSE Ch(text, lo)
  ELSE LET mid == (lo + hi) \div 2
       IN ReplaceNewlines(text, lo, mid) \o ReplaceNewlines(text, mid + 1, hi)

RECURSIVE CollapseRuns(_, _, _)
\* re.sub(r'\s+', ' ', text), positions lo..hi of text: a run leaves one space
CollapseRuns(text, lo, hi) ==
  IF lo > hi THEN ""
  ELSE IF lo = hi THEN
    IF Ch(text, lo) \notin SpaceSet THEN Ch(text, lo)
    ELSE IF lo > 1 /\ Ch(text, lo - 1) \in SpaceSet THEN "" ELSE " "
  ELSE LET mid == (lo + hi) \div 2
       IN CollapseRuns(text, lo, mid) \o CollapseRuns(text, mid + 1, hi)

\* the start of the whitespace run that position i of text is in
RunStart(text, i) ==
  Min({j \in 1..i : \A c \in j..i : Ch(text, c) \in SpaceSet})

RECURSIVE CollapsePairsIn(_, _, _)
\* re.sub(r'\s\s', ' ', text), positions lo..hi: each pair leaves one space
CollapsePairsIn(text, lo, hi) ==
  IF lo > hi THEN ""
  ELSE IF lo = hi THEN
    IF Ch(text, lo) \notin SpaceSet THEN Ch(text, lo)
    ELSE IF (lo - RunStart(text, lo)) % 2 = 1 THEN ""
    ELSE IF lo < Len(text) /\ Ch(text, lo + 1) \in SpaceSet THEN " "
    ELSE Ch(text, lo)
  ELSE LET mid == (lo + hi) \div 2
       IN CollapsePairsIn(text, lo, mid) \o CollapsePairsIn(text, mid + 1, hi)

CollapsePairs(text) == CollapsePairsIn(text, 1, Len(text))

\* line 140, first half: re.sub(r'\s+', ' ', text)
CollapseSpace(text) == CollapseRuns(text, 1, Len(text))

clean_text_field(text) ==
  IF text = "" THEN ""
  ELSE Strip(CollapseSpace(ReplaceNewlines(text, 1, Len(text))))

MaxSanLen == 5

SanTexts == Glued({"a", " ", "\n", "\r"}, MaxSanLen)

SanInit ==
  /\ san_text \in SanTexts
  /\ san_pc = "call"
  /\ san_once = ""
  /\ san_twice = ""

SanFirst ==
  /\ san_pc = "call"
  /\ san_pc' = "once"
  /\ san_once' = clean_text_field(san_text)
  /\ UNCHANGED <<san_text, san_twice>>

SanSecond ==
  /\ san_pc = "once"
  /\ san_pc' = "twice"
  /\ san_twice' = clean_text_field(san_once)
  /\ UNCHANGED <<san_text, san_once>>

SanIdle == san_text = "" /\ san_pc = "idle" /\ san_once = "" /\ san_twice = ""

(***************************************************************************)
(* is_valid_data (lines 171-194).                                          *)
(***************************************************************************)
\* a validator that makes all four main fields mandatory
all_main_fields == <<"Category", "Result", "Question Number", "Question Text">>

\* line 178
essential_fields == <<"Category", "Result">>

\* data.get(key, '')
Get(data, key) == IF key \in DOMAIN data THEN data[key] ELSE ""

is_valid_data(data) ==
  IF DOMAIN data = {} \/ data = None THEN FALSE                 \* not data
  ELSE IF \E c \in 1..Len(essential_fields) :
            \/ essential_fields[c] \notin DOMAIN data
            \/ Strip(data[essential_fields[c]]) = ""
       THEN FALSE
  ELSE IF Strip(Get(data, "Question Number")) # "" THEN TRUE
  ELSE IF Strip(Get(data, "Question Text")) # "" THEN TRUE
  ELSE TRUE

\* the records is_valid_data is tried on
ValValues == {"", " \n", "x", " Correct "}
ValKeys == {"Category", "Result", "Question Number", "Question Text"}

ValInputs ==
  {None} \cup UNION {[keys -> ValValues] : keys \in SUBSET ValKeys}

ValInit ==
  /\ val_data \in ValInputs
  /\ val_pc = "call"
  /\ val_verdict = FALSE

ValCall ==
  /\ val_pc = "call"
  /\ val_pc' = "done"
  /\ val_verdict' = is_valid_data(val_data)
  /\ UNCHANGED val_data

ValIdle == val_data = None /\ val_pc = "idle" /\ val_verdict = FALSE


(***************************************************************************)
(* Saving (lines 127-224).  The icons of ERROR_TYPES are written as ASCII  *)
(* tags.                                                                   *)
(***************************************************************************)
REQUIRED_COLUMNS ==
  <<"Category", "Question Number", "Result", "Question Text", "Error Type",
    "Confidence Level", "Time Spent", "Difficulty Level", "Notes", "Timestamp">>

ICONS == <<"<cross> ", "<cycle> ", "<warn> ", "<qmark> ">>

ERROR_TYPES ==
  <<ICONS[1] \o "Misread the question", ICONS[2] \o "Wrong formula/concept",
    ICONS[3] \o "Calculation error", ICONS[4] \o "Uncertain">>

RECURSIVE Remove(_, _)
\* s.replace(old, "")
Remove(s, old) ==
  LET i == Find(s, old, 1)
  IN IF i = 0 THEN s
     ELSE SubSeq(s, 1, i - 1) \o Remove(SubSeq(s, i + Len(old), Len(s)), old)

\* an error type stored with its icon
KeepIcon(error_type) == error_type

\* lines 217-224
clean_error_type_for_csv(error_type) ==
  IF error_type = "" THEN error_type
  ELSE Remove(Remove(Remove(Remove(error_type, ICONS[1]), ICONS[2]), ICONS[3]), ICONS[4])

\* line 130: datetime.now().strftime("%Y-%m-%d %H:%M:%S"), for a clock that
\* reads the seconds of one minute
Timestamp(clock) ==
  "2025-01-01 00:00:" \o (IF clock < 10 THEN "0" ELSE "") \o ToString(clock)

\* a row whose Notes are stored as they were typed
ordered_data_raw_notes(data, clock) ==
  [col \in {REQUIRED_COLUMNS[c] : c \in 1..Len(REQUIRED_COLUMNS)} |->
     IF col = "Timestamp" THEN Timestamp(clock)
     ELSE IF col = "Notes" THEN Get(data, col)
     ELSE clean_text_field(Get(data, col))]

\* lines 143-158: ordered_data
ordered_data(data, clock) ==
  [col \in {REQUIRED_COLUMNS[c] : c \in 1..Len(REQUIRED_COLUMNS)} |->
     IF col = "Timestamp" THEN Timestamp(clock)
     ELSE clean_text_field(Get(data, col))]

\* lines 147-158: the keys of ordered_data, in the order of the dict display
ORDERED_KEYS ==
  <<"Category", "Question Number", "Result", "Question Text", "Error Type",
    "Confidence Level", "Time Spent", "Difficulty Level", "Notes", "Timestamp">>

\* a line written with the cells in the reverse order of the keys
RowCellsReversed(row) ==
  [c \in 1..Len(ORDERED_KEYS) |-> row[ORDERED_KEYS[Len(ORDERED_KEYS) + 1 - c]]]

\* lines 160, 169: the line to_csv writes for the one-row DataFrame, a cell per
\* key in the order of the keys
RowCells(row) == [c \in 1..Len(ORDERED_KEYS) |-> row[ORDERED_KEYS[c]]]

\* a line as pd.read_csv hands it over: each cell under the column name that
\* stands at its place in the first line of the file
Named(columns, cells) ==
  [col \in {columns[c] : c \in 1..Len(columns)} |->
     cells[CHOOSE c \in 1..Len(columns) : columns[c] = col]]

(***************************************************************************)
(* pandas, as far as the log needs it (lines 226-360).  A CSV file is the  *)
(* column names of its first line and its data lines, each the list of its *)
(* cell texts.  A DataFrame is its columns and its rows, each row a        *)
(* function from the column names to values.  A value is a text (kind      *)
(* "str"), a number the parser inferred (kind "int" or "float", with the   *)
(* text str() and to_csv give for it) or NaN.  The cells of the model are  *)
(* texts, texts of digits and the texts the parser takes for missing       *)
(* values.                                                                 *)
(***************************************************************************)
\* the texts pd.read_csv reads as NaN, quoted or not
NA_VALUES ==
  {"", "#N/A", "#N/A N/A", "#NA", "-1.#IND", "-1.#QNAN", "-NaN", "-nan", "1.#IND",
   "1.#QNAN", "<NA>", "N/A", "NA", "NULL", "NaN", "None", "n/a", "nan", "null"}

Str(text) == [kind |-> "str", text |-> text]
NaN == [kind |-> "nan", text |-> ""]

IsIntegerText(cell) == cell # "" /\ \A i \in 1..Len(cell) : Ch(cell, i) \in DigitSet

\* the dtype pd.read_csv infers for a column from its cells
Dtype(cells) ==
  IF \A r \in 1..Len(cells) : cells[r] \in NA_VALUES THEN "float"
  ELSE IF \E r \in 1..Len(cells) : cells[r] \notin NA_VALUES /\ ~IsIntegerText(cells[r])
       THEN "object"
  ELSE IF \E r \in 1..Len(cells) : cells[r] \in NA_VALUES THEN "float"
  ELSE "int"

\* the value of a cell in a column of that dtype
Parsed(cell, dtype) ==
  IF cell \in NA_VALUES THEN NaN
  ELSE IF dtype = "int" THEN [kind |-> "int", text |-> ToString(DigitsValue(cell, 1, 0))]
  ELSE IF dtype = "float"
       THEN [kind |-> "float", text |-> ToString(DigitsValue(cell, 1, 0)) \o ".0"]
  ELSE Str(cell)

Names(columns) == {columns[c] : c \in 1..Len(columns)}
Place(columns, col) == CHOOSE c \in 1..Len(columns) : columns[c] = col
ColumnCells(lines, c) == [r \in 1..Len(lines) |-> lines[r][c]]

\* pd.read_csv on a readable file
read_csv(columns, lines) ==
  [columns |-> columns,
   rows |-> [r \in 1..Len(lines) |->
               [col \in Names(columns) |->
                  Parsed(lines[r][Place(columns, col)],
                         Dtype(ColumnCells(lines, Place(columns, col))))]]]

\* lines 313-318 and 256-261: df[col] = '' for the columns that are not
\* there, then df[required_columns]
WithRequiredColumns(df) ==
  [columns |-> REQUIRED_COLUMNS,
   rows |-> [r \in 1..Len(df.rows) |->
               [col \in Names(REQUIRED_COLUMNS) |->
                  IF col \in Names(df.columns) THEN df.rows[r][col] ELSE Str("")]]]

\* lines 264-265: fillna('').astype(str) on every column
AsStrings(df) ==
  [columns |-> df.columns,
   rows |-> [r \in 1..Len(df.rows) |->
               [col \in Names(df.columns) |-> Str(df.rows[r][col].text)]]]

\* lines 226-267, for a file that can be read
read_csv_safe(columns, lines) == AsStrings(WithRequiredColumns(read_csv(columns, lines)))

\* df.to_csv(index=False, quoting=1): the lines written after the header
CsvLines(df) ==
  [r \in 1..Len(df.rows) |-> [c \in 1..Len(df.columns) |-> df.rows[r][df.columns[c]].text]]

RECURSIVE KeepAt(_, _, _)
\* the rows of q at the places of the set keep, from place i on
KeepAt(q, keep, i) ==
  IF i > Len(q) THEN <<>>
  ELSE (IF i \in keep THEN <<q[i]>> ELSE <<>>) \o KeepAt(q, keep, i + 1)

\* line 324: pd.concat([a, b], ignore_index=True) of frames with equal columns
concat(a, b) == [columns |-> a.columns, rows |-> a.rows \o b.rows]

\* line 328: drop_duplicates(subset=['Timestamp'], keep='last')
drop_duplicates(df) ==
  [columns |-> df.columns,
   rows |-> KeepAt(df.rows,
                   {i \in 1..Len(df.rows) :
                      \A j \in (i + 1)..Len(df.rows) :
                        df.rows[j]["Timestamp"] # df.rows[i]["Timestamp"]},
                   1)]

(***************************************************************************)
(* The log file as a value, and the functions that rewrite it (lines       *)
(* 303-360).  An uploaded file is [readable, columns, lines].              *)
(***************************************************************************)
\* the file after df.to_csv(CSV_FILENAME, index=False, ...)
Rewritten(df) ==
  [exists |-> TRUE, headers |-> 1, columns |-> df.columns, rows |-> CsvLines(df)]

\* lines 320-332: combined_df
Combined(log, old_df) ==
  IF log.exists
  THEN drop_duplicates(concat(read_csv_safe(log.columns, log.rows), old_df))
  ELSE old_df

\* lines 303-340: the value returned and the file afterwards
load_old_log(log, uploaded_file) ==
  IF ~uploaded_file.readable THEN [ok |-> FALSE, log |-> log]
  ELSE [ok |-> TRUE,
        log |-> Rewritten(Combined(log,
                  WithRequiredColumns(read_csv(uploaded_file.columns,
                                               uploaded_file.lines))))]

\* line 353: df.drop(selected_indices) raises KeyError for a label not in the index
DropRaises(df, selected_indices) ==
  \E k \in 1..Len(selected_indices) : selected_indices[k] \notin 0..(Len(df.rows) - 1)

\* line 353: df.drop(selected_indices).reset_index(drop=True)
Dropped(df, selected_indices) ==
  [columns |-> df.columns,
   rows |-> KeepAt(df.rows,
                   {i \in 1..Len(df.rows) :
                      \A k \in 1..Len(selected_indices) : selected_indices[k] # i - 1},
                   1)]

\* lines 348-357, for the DataFrame read_csv_safe gave
DeletedFrom(log, df, selected_indices) ==
  IF df.rows = <<>> \/ DropRaises(df, selected_indices) THEN [ok |-> FALSE, log |-> log]
  ELSE [ok |-> TRUE, log |-> Rewritten(Dropped(df, selected_indices))]

\* lines 342-360: the value returned and the file afterwards
delete_selected_mistakes(log, selected_indices) ==
  IF selected_indices = <<>> \/ ~log.exists THEN [ok |-> FALSE, log |-> log]
  ELSE DeletedFrom(log, read_csv_safe(log.columns, log.rows), selected_indices)

(***************************************************************************)
(* The session: one action per user interaction, each with the script run  *)
(* it triggers (lines 393-466).                                            *)
(***************************************************************************)
MaxSaves == 2
MaxTime == 2

TextA ==
  "Ethics: Level II\nQuestion 1 of 2\nQuestion\nWhat  is\nrisk\nA.\nno\nYour result is correct.\nTotal: 01:36\n"
TextInvalid == "Quant\nno verdict"

SessionTexts == {"", " \n", TextA, TextInvalid}
SessionNotes == {"", " see\r\n p2  "}

\* parse_text on the texts of the session
ParsedOf == [t \in SessionTexts |-> parse_text(t)]

\* the truth value of st.session_state.parsed_data
Truthy(pd) == pd # None

\* lines 426-427
ParseIfNeeded(raw, pd) ==
  IF raw # "" /\ ~Truthy(pd) THEN ParsedOf[raw] ELSE pd

\* buttons rendered for any pending record
ShownForAnyRecord(pd) == Truthy(pd)

\* line 430: the Notes box and the error-type buttons are rendered
ButtonsShown(pd) == Truthy(pd) /\ is_valid_data(pd)

\* lines 394-401, and the first run of the script on empty text areas
SessInit ==
  /\ parsed_data = None
  /\ saved_successfully = FALSE
  /\ text_input_key = 0
  /\ notes_input_key = 0
  /\ raw_text_input = ""
  /\ notes_input = ""
  /\ now = 1
  /\ rerun = FALSE

\* The user changes the text area; the script runs (lines 414-430).  A Notes
\* box that is no longer rendered loses its content.
EditText(t) ==
  /\ ~rerun
  /\ t # raw_text_input
  /\ raw_text_input' = t
  /\ parsed_data' = ParseIfNeeded(t, parsed_data)
  /\ notes_input' = IF ButtonsShown(parsed_data') THEN notes_input ELSE ""
  /\ saved_successfully' = FALSE
  /\ UNCHANGED <<text_input_key, notes_input_key, csv_exists, csv_headers,
                 csv_columns, csv_rows, now, rerun>>

\* The user changes the Notes box; the script runs.
EditNotes(t) ==
  /\ ~rerun
  /\ ButtonsShown(parsed_data)
  /\ t # notes_input
  /\ notes_input' = t
  /\ parsed_data' = ParseIfNeeded(raw_text_input, parsed_data)
  /\ saved_successfully' = FALSE
  /\ UNCHANGED <<text_input_key, notes_input_key, raw_text_input, csv_exists,
                 csv_headers, csv_columns, csv_rows, now, rerun>>

\* a save that leaves the pending record in place
KeepPending(pd) == pd

\* line 213: the pending record after a save
ParsedAfterSave(pd) == None

\* lines 211-212
NextKey(key) == (key + 1) % 1000

\* The user presses an error-type button: the script runs up to line 458,
\* auto_save_and_clear saves (lines 200-207, 127-169), resets the session
\* state (lines 210-213) and calls st.rerun().  The text areas of the new
\* keys are new widgets and hold nothing.
ClickErrorType(error_type) ==
  /\ ~rerun
  /\ ButtonsShown(parsed_data)
  /\ text_input_key < MaxSaves
  /\ Truthy(parsed_data) /\ error_type # ""                      \* line 200
  /\ LET parsed_data_copy ==
           ("Error Type" :> clean_error_type_for_csv(error_type))
           @@ ("Notes" :> notes_input) @@ parsed_data
     IN csv_rows' = Append(csv_rows, RowCells(ordered_data(parsed_data_copy, now)))
  /\ csv_headers' = IF csv_exists THEN csv_headers ELSE csv_headers + 1
  /\ csv_columns' = IF csv_exists THEN csv_columns ELSE ORDERED_KEYS
  /\ csv_exists' = TRUE
  /\ saved_successfully' = TRUE
  /\ text_input_key' = NextKey(text_input_key)
  /\ notes_input_key' = NextKey(notes_input_key)
  /\ parsed_data' = ParsedAfterSave(parsed_data)
  /\ raw_text_input' = ""
  /\ notes_input' = ""
  /\ rerun' = TRUE
  /\ UNCHANGED now

\* The run st.rerun() asked for (lines 414-430).
Rerun ==
  /\ rerun
  /\ rerun' = FALSE
  /\ saved_successfully' = FALSE
  /\ parsed_data' = ParseIfNeeded(raw_text_input, parsed_data)
  /\ notes_input' = IF ButtonsShown(parsed_data') THEN notes_input ELSE ""
  /\ UNCHANGED <<text_input_key, notes_input_key, raw_text_input, csv_exists,
                 csv_headers, csv_columns, csv_rows, now>>

\* A second passes.
Tick ==
  /\ now < MaxTime
  /\ now' = now + 1
  /\ UNCHANGED <<parsed_data, saved_successfully, text_input_key, notes_input_key,
                 raw_text_input, notes_input, csv_exists, csv_headers, csv_columns,
                 csv_rows, rerun>>

SessIdle ==
  /\ parsed_data = None
  /\ saved_successfully = FALSE
  /\ text_input_key = 0
  /\ notes_input_key = 0
  /\ raw_text_input = ""
  /\ notes_input = ""
  /\ now = 1
  /\ rerun = FALSE

CsvInit ==
  csv_exists = FALSE /\ csv_headers = 0 /\ csv_columns = <<>> /\ csv_rows = <<>>

\* lines 402-407, an empty uploader
UiInit ==
  /\ uploader_key = <<>>
  /\ files_processed = FALSE
  /\ show_delete_mode = FALSE
  /\ selected_for_deletion = <<>>
  /\ merged_times = <<>>
  /\ clicks = 0

(***************************************************************************)
(* The log part of the script (lines 468-622) and the uploader's callback  *)
(* (lines 362-391).                                                        *)
(***************************************************************************)
MaxSelected == 2
MaxClicks == 4

\* one more action of the user on the log part of the page
Clicked == clicks < MaxClicks /\ clicks' = clicks + 1

\* line 530: df_log.tail(10)
TAIL == 10

\* the Timestamp of the i-th save of an earlier session
PastTimestamp(i) ==
  "2024-12-31 23:59:" \o (IF i < 10 THEN "0" ELSE "") \o ToString(i)

\* the line an earlier session saved as its i-th, with these notes
PastLine(i, notes) ==
  [RowCells(ordered_data(("Error Type" :> clean_error_type_for_csv(ERROR_TYPES[1]))
                         @@ ("Notes" :> notes) @@ ParsedOf[TextA], 1))
     EXCEPT ![Len(ORDERED_KEYS)] = PastTimestamp(i)]

\* the log earlier sessions left: none, or one of n saves, the first of them
\* with the notes "N/A"
PastLog(n) ==
  IF n = 0 THEN [exists |-> FALSE, headers |-> 0, columns |-> <<>>, rows |-> <<>>]
  ELSE [exists |-> TRUE, headers |-> 1, columns |-> ORDERED_KEYS,
        rows |-> [i \in 1..n |-> PastLine(i, IF i = 1 THEN "N/A" ELSE "")]]

PastLogs == {PastLog(n) : n \in {0, 2}}

\* The files the user can upload: an export of an earlier log, its notes
\* edited since; a table with other columns, two of its lines with one
\* Timestamp; a file that is no CSV.
FILES ==
  [f \in {"a.csv", "b.csv", "c.csv"} |->
     CASE f = "a.csv" ->
            [readable |-> TRUE, columns |-> ORDERED_KEYS,
             lines |-> <<PastLine(1, "from a"), PastLine(2, "007")>>]
       [] f = "b.csv" ->
            [readable |-> TRUE, columns |-> <<"Timestamp", "Category", "Extra">>,
             lines |-> << <<PastTimestamp(31), "Quant", "x">>,
                          <<PastTimestamp(31), "Equity", "y">> >>]
       [] OTHER -> [readable |-> FALSE, columns |-> <<>>, lines |-> <<>>]]

\* mistake_log.csv as a value
TheLog ==
  [exists |-> csv_exists, headers |-> csv_headers, columns |-> csv_columns,
   rows |-> csv_rows]

SetLog(log) ==
  /\ csv_exists' = log.exists
  /\ csv_headers' = log.headers
  /\ csv_columns' = log.columns
  /\ csv_rows' = log.rows

\* lines 380-381: one round of the loop, res being what load_old_log gave
AfterLoad(st, f, res) ==
  [log |-> res.log,
   merged |-> IF res.ok THEN [st.merged EXCEPT ![f] = @ + 1] ELSE st.merged]

RECURSIVE LoadedAll(_, _, _)
\* lines 379-381: the loop over the uploaded files, from place k on
LoadedAll(st, uploaded_files, k) ==
  IF k > Len(uploaded_files) THEN st
  ELSE LoadedAll(AfterLoad(st, uploaded_files[k],
                           load_old_log(st.log, FILES[uploaded_files[k]])),
                 uploaded_files, k + 1)

\* a callback that merges whatever is pending
NeverBlocks(pd) == FALSE

\* line 366: if st.session_state.get("parsed_data")
PendingBlocks(pd) == Truthy(pd)

\* lines 374-391, st being the log and the merges counted so far
Processed(uploaded_files, processed, st) ==
  IF uploaded_files # <<>>
  THEN IF ~processed
       THEN [files_processed |-> TRUE] @@ LoadedAll(st, uploaded_files, 1)
       ELSE [files_processed |-> processed] @@ st
  ELSE [files_processed |-> FALSE] @@ st

\* lines 362-391
process_uploaded_log(pd, uploaded_files, processed, st) ==
  IF PendingBlocks(pd) THEN [files_processed |-> processed] @@ st
  ELSE Processed(uploaded_files, processed, st)

\* lines 414-430 of a script run in which no text area was edited
TopOfRun ==
  /\ parsed_data' = ParseIfNeeded(raw_text_input, parsed_data)
  /\ saved_successfully' = FALSE
  /\ notes_input' = IF ButtonsShown(parsed_data') THEN notes_input ELSE ""
  /\ UNCHANGED <<text_input_key, notes_input_key, raw_text_input, now>>

\* The uploader's content has become uploaded_files: the callback runs (line
\* 510), then the script.
UploaderChanged(uploaded_files, counted) ==
  /\ ~rerun
  /\ Clicked
  /\ LET done == process_uploaded_log(parsed_data, uploaded_files, files_processed,
                                      [log |-> TheLog, merged |-> counted])
     IN /\ files_processed' = done.files_processed
        /\ merged_times' = done.merged
        /\ SetLog(done.log)
  /\ uploader_key' = uploaded_files
  /\ TopOfRun
  /\ UNCHANGED <<show_delete_mode, selected_for_deletion, rerun>>

\* The user puts a file into the uploader that was not uploaded before.
AddFile(f) ==
  /\ f \notin DOMAIN merged_times
  /\ UploaderChanged(Append(uploader_key, f), (f :> 0) @@ merged_times)

\* The user takes the file at place k out of the uploader.
RemoveFile(k) ==
  /\ k \in 1..Len(uploader_key)
  /\ UploaderChanged(SubSeq(uploader_key, 1, k - 1)
                       \o SubSeq(uploader_key, k + 1, Len(uploader_key)),
                     merged_times)

\* a toggle that leaves the selection as it is
SelectionKept(mode, selected) == selected

\* lines 518-519: the selection once the toggle has set the mode
SelectionAfterToggle(mode, selected) == IF mode THEN selected ELSE <<>>

\* lines 515-519: the user presses "Delete Mode"
ClickDeleteMode ==
  /\ ~rerun
  /\ Clicked
  /\ TopOfRun
  /\ show_delete_mode' = ~show_delete_mode
  /\ selected_for_deletion' = SelectionAfterToggle(show_delete_mode', selected_for_deletion)
  /\ UNCHANGED <<uploader_key, files_processed, merged_times, csvVars, rerun>>

\* lines 526-531: the table is shown, with these original indices
Shown(log) ==
  IF log.exists /\ log.rows # <<>>
  THEN {i \in 0..(Len(log.rows) - 1) : i >= Len(log.rows) - TAIL}
  ELSE {}

\* list.remove(x)
ListRemove(q, x) ==
  LET k == CHOOSE k \in 1..Len(q) : q[k] = x /\ \A j \in 1..(k - 1) : q[j] # x
  IN SubSeq(q, 1, k - 1) \o SubSeq(q, k + 1, Len(q))

InList(q, x) == \E k \in 1..Len(q) : q[k] = x

\* lines 544-559: the user ticks or clears the checkbox of the shown row with
\* the original index idx
ToggleCheckbox(idx) ==
  /\ ~rerun
  /\ show_delete_mode
  /\ idx \in Shown(TheLog)
  /\ Clicked
  /\ TopOfRun
  /\ IF InList(selected_for_deletion, idx)
     THEN selected_for_deletion' = ListRemove(selected_for_deletion, idx)
     ELSE /\ Len(selected_for_deletion) < MaxSelected
          /\ selected_for_deletion' = Append(selected_for_deletion, idx)
  /\ UNCHANGED <<uploader_key, files_processed, merged_times, show_delete_mode,
                 csvVars, rerun>>

\* lines 574-591: the user presses "Delete Selected"
ClickDeleteSelected ==
  /\ ~rerun
  /\ show_delete_mode
  /\ Shown(TheLog) # {}
  /\ Len(selected_for_deletion) > 0
  /\ Clicked
  /\ TopOfRun
  /\ LET done == delete_selected_mistakes(TheLog, selected_for_deletion)
     IN /\ SetLog(done.log)
        /\ selected_for_deletion' = IF done.ok THEN <<>> ELSE selected_for_deletion
        /\ show_delete_mode' = IF done.ok THEN FALSE ELSE show_delete_mode
        /\ rerun' = done.ok
  /\ UNCHANGED <<uploader_key, files_processed, merged_times>>

\* a session that starts on the log of earlier sessions
LogInit(logs) ==
  \E log \in logs :
    /\ csv_exists = log.exists
    /\ csv_headers = log.headers
    /\ csv_columns = log.columns
    /\ csv_rows = log.rows

(***************************************************************************)
(* save_to_csv run by several script threads (lines 160-169).              *)
(***************************************************************************)
NumThreads == 2
MaxThreadSaves == 2

Threads == 1..NumThreads

\* the row a thread saves
ThreadRow(p) ==
  ordered_data(("Error Type" :> clean_error_type_for_csv(ERROR_TYPES[p]))
               @@ ("Notes" :> "") @@ ParsedOf[TextA], 1)

LkInit ==
  /\ lk_pc = [p \in Threads |-> "idle"]
  /\ lk_attr = 0
  /\ lk_owner = [l \in Threads |-> 0]
  /\ lk_with = [p \in Threads |-> 0]
  /\ lk_file_exists = [p \in Threads |-> FALSE]
  /\ lk_saves = [p \in Threads |-> 0]

\* lines 127-160: the call, up to the DataFrame of the new row
LkCall(p) ==
  /\ lk_pc[p] = "idle"
  /\ lk_saves[p] < MaxThreadSaves
  /\ lk_pc' = [lk_pc EXCEPT ![p] = "hasattr"]
  /\ lk_saves' = [lk_saves EXCEPT ![p] = @ + 1]
  /\ UNCHANGED <<lk_attr, lk_owner, lk_with, lk_file_exists, csvVars>>

\* line 164: if not hasattr(save_to_csv, '_lock')
LkHasattr(p) ==
  /\ lk_pc[p] = "hasattr"
  /\ lk_pc' = [lk_pc EXCEPT ![p] = IF lk_attr = 0 THEN "create" ELSE "with"]
  /\ UNCHANGED <<lk_attr, lk_owner, lk_with, lk_file_exists, lk_saves, csvVars>>

\* line 165: save_to_csv._lock = threading.Lock(); thread p's new lock object is p
LkCreate(p) ==
  /\ lk_pc[p] = "create"
  /\ lk_attr' = p
  /\ lk_owner' = [lk_owner EXCEPT ![p] = 0]
  /\ lk_pc' = [lk_pc EXCEPT ![p] = "with"]
  /\ UNCHANGED <<lk_with, lk_file_exists, lk_saves, csvVars>>

\* line 167: with save_to_csv._lock, once that lock is free
LkAcquire(p) ==
  /\ lk_pc[p] = "with"
  /\ lk_owner[lk_attr] = 0
  /\ lk_owner' = [lk_owner EXCEPT ![lk_attr] = p]
  /\ lk_with' = [lk_with EXCEPT ![p] = lk_attr]
  /\ lk_pc' = [lk_pc EXCEPT ![p] = "exists"]
  /\ UNCHANGED <<lk_attr, lk_file_exists, lk_saves, csvVars>>

\* line 168: file_exists = os.path.exists(CSV_FILENAME)
LkExists(p) ==
  /\ lk_pc[p] = "exists"
  /\ lk_file_exists' = [lk_file_exists EXCEPT ![p] = csv_exists]
  /\ lk_pc' = [lk_pc EXCEPT ![p] = "to_csv"]
  /\ UNCHANGED <<lk_attr, lk_owner, lk_with, lk_saves, csvVars>>

\* line 169: to_csv(mode='a', header=not file_exists)
LkAppend(p) ==
  /\ lk_pc[p] = "to_csv"
  /\ csv_exists' = TRUE
  /\ csv_headers' = IF lk_file_exists[p] THEN csv_headers ELSE csv_headers + 1
  /\ csv_columns' = IF csv_exists THEN csv_columns ELSE ORDERED_KEYS
  /\ csv_rows' = Append(csv_rows, RowCells(ThreadRow(p)))
  /\ lk_pc' = [lk_pc EXCEPT ![p] = "release"]
  /\ UNCHANGED <<lk_attr, lk_owner, lk_with, lk_file_exists, lk_saves>>

\* the end of the with block
LkRelease(p) ==
  /\ lk_pc[p] = "release"
  /\ lk_owner' = [lk_owner EXCEPT ![lk_with[p]] = 0]
  /\ lk_with' = [lk_with EXCEPT ![p] = 0]
  /\ lk_pc' = [lk_pc EXCEPT ![p] = "idle"]
  /\ UNCHANGED <<lk_attr, lk_file_exists, lk_saves, csvVars>>

LkIdle ==
  /\ lk_pc = <<>>
  /\ lk_attr = 0
  /\ lk_owner = <<>>
  /\ lk_with = <<>>
  /\ lk_file_exists = <<>>
  /\ lk_saves = <<>>

(***************************************************************************)
(* The specifications.                                                     *)
(***************************************************************************)
vars == <<ptVars, tvVars, sanVars, valVars, sessVars, uiVars, csvVars, lkVars>>

\* the session
Init == SessInit /\ CsvInit /\ UiInit /\ PtIdle /\ TvIdle /\ SanIdle /\ ValIdle /\ LkIdle

Next ==
  \/ \E t \in SessionTexts : EditText(t) /\ UNCHANGED <<uiVars, ptVars, tvVars, sanVars, valVars, lkVars>>
  \/ \E t \in SessionNotes : EditNotes(t) /\ UNCHANGED <<uiVars, ptVars, tvVars, sanVars, valVars, lkVars>>
  \/ \E c \in 1..Len(ERROR_TYPES) :
       ClickErrorType(ERROR_TYPES[c]) /\ UNCHANGED <<uiVars, ptVars, tvVars, sanVars, valVars, lkVars>>
  \/ Rerun /\ UNCHANGED <<uiVars, ptVars, tvVars, sanVars, valVars, lkVars>>
  \/ Tick /\ UNCHANGED <<uiVars, ptVars, tvVars, sanVars, valVars, lkVars>>

Spec == Init /\ [][Next]_vars

\* one call of parse_text
InitParse == PtInit /\ SessIdle /\ CsvInit /\ UiInit /\ TvIdle /\ SanIdle /\ ValIdle /\ LkIdle

NextParse ==
  \/ PtEnter /\ UNCHANGED <<uiVars, tvVars, sanVars, valVars, sessVars, csvVars, lkVars>>
  \/ PtSearch /\ UNCHANGED <<uiVars, tvVars, sanVars, valVars, sessVars, csvVars, lkVars>>
  \/ PtMiss /\ UNCHANGED <<uiVars, tvVars, sanVars, valVars, sessVars, csvVars, lkVars>>
  \/ PtHit /\ UNCHANGED <<uiVars, tvVars, sanVars, valVars, sessVars, csvVars, lkVars>>
  \/ PtEndField /\ UNCHANGED <<uiVars, tvVars, sanVars, valVars, sessVars, csvVars, lkVars>>
  \/ PtReturn /\ UNCHANGED <<uiVars, tvVars, sanVars, valVars, sessVars, csvVars, lkVars>>

\* The session with the log part of the page, on no log or a short one.  The
\* clock stands still: the saves of the session carry one Timestamp.
InitLog == SessInit /\ LogInit(PastLogs) /\ UiInit /\ PtIdle /\ TvIdle /\ SanIdle /\ ValIdle /\ LkIdle

NextLog ==
  \/ \E t \in {"", TextA} : EditText(t) /\ UNCHANGED <<uiVars, ptVars, tvVars, sanVars, valVars, lkVars>>
  \/ ClickErrorType(ERROR_TYPES[Len(ERROR_TYPES)])
       /\ UNCHANGED <<uiVars, ptVars, tvVars, sanVars, valVars, lkVars>>
  \/ Rerun /\ UNCHANGED <<uiVars, ptVars, tvVars, sanVars, valVars, lkVars>>
  \/ \E f \in DOMAIN FILES : AddFile(f) /\ UNCHANGED <<ptVars, tvVars, sanVars, valVars, lkVars>>
  \/ \E k \in 1..Len(uploader_key) :
       RemoveFile(k) /\ UNCHANGED <<ptVars, tvVars, sanVars, valVars, lkVars>>
  \/ ClickDeleteMode /\ UNCHANGED <<ptVars, tvVars, sanVars, valVars, lkVars>>
  \/ \E idx \in Shown(TheLog) :
       ToggleCheckbox(idx) /\ UNCHANGED <<ptVars, tvVars, sanVars, valVars, lkVars>>
  \/ ClickDeleteSelected /\ UNCHANGED <<ptVars, tvVars, sanVars, valVars, lkVars>>

SpecLog == InitLog /\ [][NextLog]_vars

\* the same session on a log that fills the table
InitPage == SessInit /\ LogInit({PastLog(TAIL)}) /\ UiInit /\ PtIdle /\ TvIdle /\ SanIdle
            /\ ValIdle /\ LkIdle

SpecPage == InitPage /\ [][NextLog]_vars

SpecParse == InitParse /\ [][NextParse]_vars

\* calls of parse_text in sequence
InitCalls == PtInitCalls /\ SessIdle /\ CsvInit /\ UiInit /\ TvIdle /\ SanIdle /\ ValIdle /\ LkIdle

NextCalls ==
  \/ PtEnter /\ UNCHANGED <<uiVars, tvVars, sanVars, valVars, sessVars, csvVars, lkVars>>
  \/ PtSearch /\ UNCHANGED <<uiVars, tvVars, sanVars, valVars, sessVars, csvVars, lkVars>>
  \/ PtMiss /\ UNCHANGED <<uiVars, tvVars, sanVars, valVars, sessVars, csvVars, lkVars>>
  \/ PtHit /\ UNCHANGED <<uiVars, tvVars, sanVars, valVars, sessVars, csvVars, lkVars>>
  \/ PtEndField /\ UNCHANGED <<uiVars, tvVars, sanVars, valVars, sessVars, csvVars, lkVars>>
  \/ PtReturn /\ UNCHANGED <<uiVars, tvVars, sanVars, valVars, sessVars, csvVars, lkVars>>
  \/ \E text \in CallTexts :
       PtCall(text) /\ UNCHANGED <<uiVars, tvVars, sanVars, valVars, sessVars, csvVars, lkVars>>

SpecCalls == InitCalls /\ [][NextCalls]_vars

\* the Time Spent normalization of one value
InitTime == TvInit /\ SessIdle /\ CsvInit /\ UiInit /\ PtIdle /\ SanIdle /\ ValIdle /\ LkIdle

NextTime == TvNormalize /\ UNCHANGED <<uiVars, ptVars, sanVars, valVars, sessVars, csvVars, lkVars>>

SpecTime == InitTime /\ [][NextTime]_vars

\* clean_text_field, twice
InitSan == SanInit /\ SessIdle /\ CsvInit /\ UiInit /\ PtIdle /\ TvIdle /\ ValIdle /\ LkIdle

NextSan ==
  \/ SanFirst /\ UNCHANGED <<uiVars, ptVars, tvVars, valVars, sessVars, csvVars, lkVars>>
  \/ SanSecond /\ UNCHANGED <<uiVars, ptVars, tvVars, valVars, sessVars, csvVars, lkVars>>

SpecSan == InitSan /\ [][NextSan]_vars

\* one call of is_valid_data
InitValid == ValInit /\ SessIdle /\ CsvInit /\ UiInit /\ PtIdle /\ TvIdle /\ SanIdle /\ LkIdle

NextValid == ValCall /\ UNCHANGED <<uiVars, ptVars, tvVars, sanVars, sessVars, csvVars, lkVars>>

SpecValid == InitValid /\ [][NextValid]_vars

\* concurrent saves
InitLock == LkInit /\ SessIdle /\ CsvInit /\ UiInit /\ PtIdle /\ TvIdle /\ SanIdle /\ ValIdle

NextLock ==
  \/ \E p \in Threads : LkCall(p) /\ UNCHANGED <<uiVars, ptVars, tvVars, sanVars, valVars, sessVars>>
  \/ \E p \in Threads : LkHasattr(p) /\ UNCHANGED <<uiVars, ptVars, tvVars, sanVars, valVars, sessVars>>
  \/ \E p \in Threads : LkCreate(p) /\ UNCHANGED <<uiVars, ptVars, tvVars, sanVars, valVars, sessVars>>
  \/ \E p \in Threads : LkAcquire(p) /\ UNCHANGED <<uiVars, ptVars, tvVars, sanVars, valVars, sessVars>>
  \/ \E p \in Threads : LkExists(p) /\ UNCHANGED <<uiVars, ptVars, tvVars, sanVars, valVars, sessVars>>
  \/ \E p \in Threads : LkAppend(p) /\ UNCHANGED <<uiVars, ptVars, tvVars, sanVars, valVars, sessVars>>
  \/ \E p \in Threads : LkRelease(p) /\ UNCHANGED <<uiVars, ptVars, tvVars, sanVars, valVars, sessVars>>

SpecLock == InitLock /\ [][NextLock]_vars

(***************************************************************************)
(* Properties of parse_text (SpecParse).                                   *)
(***************************************************************************)
\* the patterns of the field that match the text, by their place in the list
Hits(field, text) ==
  {i \in 1..Len(PARSING_RULES[field]) : Search(PARSING_RULES[field][i], text).ok}

\* the patterns of the field that the call has evaluated, and those of them
\* that matched
SearchedOf(field) == {i \in 1..Len(PARSING_RULES[field]) : <<field, i>> \in pt_searched}
MatchedOf(field) == {i \in 1..Len(PARSING_RULES[field]) : <<field, i>> \in pt_matched}

\* the text is empty or consists of whitespace only
OnlyWhitespace(text) == \A i \in 1..Len(text) : Ch(text, i) \in SpaceSet

\* what pattern i of the field gives for the text
ValueFrom(field, text, i) ==
  ValueOf(field, i, text, Search(PARSING_RULES[field][i], text)).value

\* C1: for every field and every text, the patterns are evaluated in listed
\* order up to the first one that matches and no further, and the returned
\* value of the field comes from that pattern; when none matches, all have
\* been evaluated.
FirstMatchWins ==
  (pt_pc = "done" /\ pt_return # None) =>
    \A c \in 1..Len(FIELDS) :
      IF MatchedOf(FIELDS[c]) = {}
      THEN SearchedOf(FIELDS[c]) = 1..Len(PARSING_RULES[FIELDS[c]])
      ELSE /\ Cardinality(MatchedOf(FIELDS[c])) = 1
           /\ SearchedOf(FIELDS[c]) = 1..Max(MatchedOf(FIELDS[c]))
           /\ pt_return[FIELDS[c]] =
                ValueFrom(FIELDS[c], pt_raw_text, Max(MatchedOf(FIELDS[c])))

\* a call has returned for a text where two patterns of a field match and the
\* first of them is not the first of the list
FirstMatchWinsWitness ==
  /\ pt_pc = "done"
  /\ pt_return # None
  /\ \E c \in 1..Len(FIELDS) :
       /\ Cardinality(Hits(FIELDS[c], pt_raw_text)) >= 2
       /\ Min(Hits(FIELDS[c], pt_raw_text)) > 1
       /\ pt_return[FIELDS[c]] # ""

\* C2: parse_text returns None exactly for the texts that are empty or
\* whitespace only, and it returns it: such a call never raises.
NoneIffBlank ==
  /\ OnlyWhitespace(pt_raw_text) => pt_pc \in {"call", "done"}
  /\ pt_pc = "done" => (pt_return = None <=> OnlyWhitespace(pt_raw_text))

\* a call with a whitespace-only text that is not empty has returned None
NoneIffBlankWitness ==
  pt_pc = "done" /\ pt_return = None /\ pt_raw_text # ""

\* C3: a call with a non-blank text never raises, and it returns a record
\* whose keys are exactly the fields of the rule table, whose values are all
\* strings, and in which a field is "" when all its patterns were tried and none
\* matched.
TotalRecord ==
  /\ pt_pc # "raised"
  /\ (pt_pc = "done" /\ ~OnlyWhitespace(pt_raw_text)) =>
       /\ DOMAIN pt_return = {FIELDS[c] : c \in 1..Len(FIELDS)}
       /\ DOMAIN pt_return = DOMAIN PARSING_RULES
       /\ \A field \in DOMAIN PARSING_RULES :
            /\ pt_return[field] \in STRING
            /\ MatchedOf(field) = {} =>
                 /\ SearchedOf(field) = 1..Len(PARSING_RULES[field])
                 /\ pt_return[field] = ""

\* a call has returned a record for a text with a malformed time: the raw time
\* is kept and a field without a match is ""
TotalRecordWitness ==
  /\ pt_pc = "done"
  /\ pt_return # None
  /\ pt_return["Time Spent"] = "abc:def"
  /\ Hits("Difficulty Level", pt_raw_text) = {}
  /\ pt_return["Difficulty Level"] = ""

(***************************************************************************)
(* Properties of is_valid_data (SpecValid).                                *)
(***************************************************************************)
\* the string is non-empty after trimming
NonEmptyTrimmed(s) == \E i \in 1..Len(s) : Ch(s, i) \notin SpaceSet

\* C4: the verdict is TRUE exactly when the record is not None and its
\* Category and Result are both present and non-empty after trimming,
\* whatever Question Number, Question Text or other keys hold.
ValidIffCategoryAndResult ==
  val_pc = "done" =>
    (val_verdict <=>
       /\ val_data # None
       /\ "Category" \in DOMAIN val_data
       /\ "Result" \in DOMAIN val_data
       /\ NonEmptyTrimmed(val_data["Category"])
       /\ NonEmptyTrimmed(val_data["Result"]))

\* a record with Category and Result alone, and no question, has been accepted
ValidIffCategoryAndResultWitness ==
  /\ val_pc = "done"
  /\ val_verdict
  /\ "Question Number" \notin DOMAIN val_data
  /\ Get(val_data, "Question Text") = ""

(***************************************************************************)
(* Properties of the Time Spent normalization (SpecTime).                  *)
(***************************************************************************)
\* the positions of the colons of the value
Colons(value) == {i \in 1..Len(value) : Ch(value, i) = ":"}

\* the value holds "sec" in any case
HasSec(value) ==
  \E i \in 1..(Len(value) - 2) : Lower(SubSeq(value, i, i + 2)) = "sec"

\* the text before and the text after the only colon of the value
BeforeColon(value) == SubSeq(value, 1, Min(Colons(value)) - 1)
AfterColon(value) == SubSeq(value, Min(Colons(value)) + 1, Len(value))

\* the value is minutes:seconds with integers in range
IsMinSec(value) ==
  /\ Cardinality(Colons(value)) = 1
  /\ IntOk(BeforeColon(value)) /\ IntOk(AfterColon(value))
  /\ IntValue(BeforeColon(value)) \in 0..999
  /\ IntValue(AfterColon(value)) \in 0..59

\* C5: a value with "sec" is kept; otherwise a value minutes:seconds with
\* integers in 0..999 and 0..59 becomes "S secs" for 0 minutes and
\* "M mins S secs" otherwise ("00:03" gives "3 secs", "01:36" gives
\* "1 mins 36 secs"); every other value is kept, and nothing is raised.
TimeNormalized ==
  tv_pc = "done" =>
    /\ tv_out.exc = ""
    /\ tv_out.value =
         IF HasSec(tv_value) \/ ~IsMinSec(tv_value) THEN tv_value
         ELSE IF IntValue(BeforeColon(tv_value)) = 0
              THEN ToString(IntValue(AfterColon(tv_value))) \o " secs"
              ELSE ToString(IntValue(BeforeColon(tv_value))) \o " mins "
                   \o ToString(IntValue(AfterColon(tv_value))) \o " secs"
    /\ tv_value = "00:03" => tv_out.value = "3 secs"
    /\ tv_value = "01:36" => tv_out.value = "1 mins 36 secs"

\* the value 01:36 has been normalized
TimeNormalizedWitness ==
  tv_pc = "done" /\ tv_value = "01:36" /\ tv_out.value = "1 mins 36 secs"

(***************************************************************************)
(* Properties of clean_text_field (SpecSan).                               *)
(***************************************************************************)
\* C9: clean_text_field applied to its own result gives that result again.
Idempotent == san_pc = "twice" => san_twice = san_once

\* clean_text_field has been applied twice to a text that it changes into a
\* non-empty one
IdempotentWitness ==
  san_pc = "twice" /\ san_once # san_text /\ san_once # "" /\ san_twice = san_once

(***************************************************************************)
(* Properties of the session (Spec).                                       *)
(***************************************************************************)
\* C6: after every script run with a non-blank text in the text box, the
\* pending record is the extraction of that text.
PendingIsExtractionOfText ==
  (~rerun /\ ~OnlyWhitespace(raw_text_input)) =>
    parsed_data = ParsedOf[raw_text_input]

\* auto_save_and_clear has saved in this step: it alone calls st.rerun()
Finalized == ~rerun /\ rerun'

\* the error types as they are stored
StoredErrorTypes ==
  {clean_error_type_for_csv(ERROR_TYPES[c]) : c \in 1..Len(ERROR_TYPES)}

\* line r of the log, read by column name
LogRow(r) == Named(csv_columns, csv_rows[r])

\* the row is the pending record pd with an error type, the notes and the time
RowOf(row, pd, notes, clock) ==
  /\ DOMAIN row = {REQUIRED_COLUMNS[c] : c \in 1..Len(REQUIRED_COLUMNS)}
  /\ \A c \in 1..Len(FIELDS) : row[FIELDS[c]] = clean_text_field(pd[FIELDS[c]])
  /\ row["Error Type"] \in StoredErrorTypes
  /\ row["Notes"] = clean_text_field(notes)
  /\ row["Timestamp"] = Timestamp(clock)

\* C7: a step in which an error-type button saves appends exactly one row,
\* made of the pending record, the error type, the notes and the time, and
\* leaves no pending record and empty text and notes inputs; no other step
\* changes the log.
FinalizeAppendsOneRow ==
  [][IF Finalized
     THEN /\ parsed_data # None
          /\ Len(csv_rows') = Len(csv_rows) + 1
          /\ SubSeq(csv_rows', 1, Len(csv_rows)) = csv_rows
          /\ RowOf(Named(csv_columns', csv_rows'[Len(csv_rows')]), parsed_data, notes_input,
                  now)
          /\ parsed_data' = None
          /\ raw_text_input' = ""
          /\ notes_input' = ""
     ELSE csv_rows' = csv_rows]_vars

\* two records have been finalized, the second a moment ago
FinalizeAppendsOneRowWitness ==
  /\ rerun
  /\ saved_successfully
  /\ Len(csv_rows) = 2
  /\ LogRow(1)["Error Type"] = "Misread the question"
  /\ LogRow(2)["Error Type"] = "Uncertain"
  /\ LogRow(2)["Timestamp"] = Timestamp(MaxTime)
  /\ parsed_data = None

\* the columns of a row that hold free text
TextColumns == {REQUIRED_COLUMNS[c] : c \in 1..Len(REQUIRED_COLUMNS)} \ {"Timestamp"}

\* no line terminator, no two whitespace characters in a row, no whitespace
\* at either end
Sanitized(s) ==
  /\ \A i \in 1..Len(s) : Ch(s, i) \notin {"\n", "\r"}
  /\ \A i \in 1..(Len(s) - 1) : ~(Ch(s, i) \in SpaceSet /\ Ch(s, i + 1) \in SpaceSet)
  /\ s # "" => (Ch(s, 1) \notin SpaceSet /\ Ch(s, Len(s)) \notin SpaceSet)

\* C10: every free-text column of every row of the log is sanitized.
RowsSanitized ==
  \A r \in 1..Len(csv_rows) : \A col \in TextColumns : Sanitized(LogRow(r)[col])

\* a row has been saved from a text and notes that held newlines and double
\* spaces
RowsSanitizedWitness ==
  /\ Len(csv_rows) >= 1
  /\ LogRow(1)["Question Text"] = "What is risk"
  /\ LogRow(1)["Notes"] = "see p2"

(***************************************************************************)
(* Properties of concurrent saves (SpecLock).                              *)
(***************************************************************************)
\* thread p is between the existence check and the end of the with block
InSection(p) == lk_pc[p] \in {"exists", "to_csv", "release"}

\* C8: the sections of two threads never overlap, and the file has exactly
\* one header line.
AppendsSerialized ==
  /\ \A p \in Threads : \A q \in Threads \ {p} : ~(InSection(p) /\ InSection(q))
  /\ csv_exists => csv_headers = 1

(***************************************************************************)
(* C11: a call of parse_text changes neither the Rule Table (its fields,   *)
(* its patterns, their order), nor the session state, nor the log, and     *)
(* calls with the same text return equal records whatever calls happened   *)
(* in between.                                                             *)
(***************************************************************************)
SameTextSameRecord(calls) ==
  \A a, b \in 1..Len(calls) : calls[a][1] = calls[b][1] => calls[a][2] = calls[b][2]

ParseTextIsPure ==
  [][/\ rule_table' = rule_table
     /\ rule_table = RuleRefs
     /\ sessVars' = sessVars
     /\ csvVars' = csvVars
     /\ SameTextSameRecord(pt_calls')]_vars

ParseTextIsPureWitness ==
  /\ Len(pt_calls) = 3
  /\ pt_calls[1][1] = pt_calls[3][1]
  /\ pt_calls[2][1] # pt_calls[1][1]
  /\ pt_calls[1][2] # None
  /\ pt_calls[2][2] # None

(***************************************************************************)
(* C12: the Error Type of every row saved through the error-type buttons   *)
(* is one of the four labels without its icon, and a save with "Uncertain" *)
(* stores the Result of the pending record as it is.                       *)
(***************************************************************************)
FixedLabels ==
  {"Misread the question", "Wrong formula/concept", "Calculation error", "Uncertain"}

ErrorTypeIsFixedLabel ==
  [][/\ \A r \in 1..Len(csv_rows') :
          Named(csv_columns', csv_rows'[r])["Error Type"] \in FixedLabels
     /\ (/\ Finalized
         /\ Named(csv_columns', csv_rows'[Len(csv_rows')])["Error Type"] = "Uncertain") =>
          Named(csv_columns', csv_rows'[Len(csv_rows')])["Result"] = parsed_data["Result"]]_vars

\* a record whose Result is "Correct" has just been saved as "Uncertain"
ErrorTypeIsFixedLabelWitness ==
  /\ rerun
  /\ Len(csv_rows) >= 1
  /\ LogRow(Len(csv_rows))["Error Type"] = "Uncertain"
  /\ LogRow(Len(csv_rows))["Result"] = "Correct"

(***************************************************************************)
(* C13: the Result of an extracted record is the matched value with its    *)
(* first letter upper case and all others lower case; every other field    *)
(* but Time Spent is the matched text, altered by trimming only.           *)
(***************************************************************************)
\* out is raw without the whitespace at its two ends
TrimOf(out, raw) ==
  \E a \in 0..Len(raw) :
    /\ a + Len(out) <= Len(raw)
    /\ SubSeq(raw, a + 1, a + Len(out)) = out
    /\ \A i \in (1..a) \cup ((a + Len(out) + 1)..Len(raw)) : Ch(raw, i) \in SpaceSet
    /\ out # "" => (Ch(out, 1) \notin SpaceSet /\ Ch(out, Len(out)) \notin SpaceSet)

\* out is v with the first letter upper case and the others lower case
CapitalizedOf(out, v) ==
  /\ Len(out) = Len(v)
  /\ \A i \in 1..Len(v) :
       /\ Lower(Ch(out, i)) = Lower(Ch(v, i))
       /\ Ch(out, i) \notin (IF i = 1 THEN LowerSet ELSE UpperSet)

\* the text a match hands over: group 1 if the pattern has a group, else the
\* whole match
MatchedText(re, text, m) ==
  IF HasGroup(re) THEN SubSeq(text, m.gs, m.ge - 1) ELSE SubSeq(text, m.s, m.e - 1)

\* the step stores the value of a match
StoresMatch == pt_pc = "if" /\ pt_match.ok /\ pt_pc' = "for"

ResultCapitalizedOthersTrimmed ==
  [][/\ StoresMatch =>
          LET field == FIELDS[pt_fi]
              raw == MatchedText(PARSING_RULES[field][RuleAt(field, pt_pi)], pt_raw_text,
                                 pt_match)
              out == pt_parsed_data'[field]
          IN /\ field = "Result" =>
                  \E a \in 1..(Len(raw) + 1), b \in 0..Len(raw) :
                    /\ TrimOf(SubSeq(raw, a, b), raw)
                    /\ CapitalizedOf(out, SubSeq(raw, a, b))
             /\ field \notin {"Result", "Time Spent"} => TrimOf(out, raw)
             /\ \A other \in DOMAIN pt_parsed_data : pt_parsed_data'[other] = pt_parsed_data[other]
     /\ (pt_pc = "for" /\ pt_pc' = "done") => pt_return' = pt_parsed_data]_vars

\* a call has returned "Incorrect" for a text that says INCORRECT, and a
\* Category that stood between blanks
ResultCapitalizedOthersTrimmedWitness ==
  /\ pt_pc = "done"
  /\ pt_return # None
  /\ pt_return["Result"] = "Incorrect"
  /\ Find(pt_raw_text, "INCORRECT", 1) > 0
  /\ pt_return["Category"] # ""

(***************************************************************************)
(* C19: every row that reaches the log through the save path (error-type   *)
(* button, auto_save_and_clear, save_to_csv) has a non-empty Category and  *)
(* a non-empty Result.                                                     *)
(***************************************************************************)
SavedRowsHaveCategoryAndResult ==
  \A r \in 1..Len(csv_rows) : LogRow(r)["Category"] # "" /\ LogRow(r)["Result"] # ""

\* a record has been saved, and a record without a Result is pending and has
\* not been saved
SavedRowsHaveCategoryAndResultWitness ==
  /\ Len(csv_rows) = 1
  /\ ~rerun
  /\ parsed_data # None
  /\ parsed_data["Category"] # ""
  /\ parsed_data["Result"] = ""

(***************************************************************************)
(* Properties of the log under saves, merges and deletes (SpecLog).        *)
(***************************************************************************)
\* the column order the log is to have
FixedOrder ==
  <<"Category", "Question Number", "Result", "Question Text", "Error Type",
    "Confidence Level", "Time Spent", "Difficulty Level", "Notes", "Timestamp">>

\* the first line of the log names the ten columns in the fixed order and every
\* data line has a cell for each of them
TenColumnsInOrder ==
  csv_exists =>
    /\ csv_columns = FixedOrder
    /\ \A r \in 1..Len(csv_rows) : Len(csv_rows[r]) = Len(FixedOrder)

\* save_to_csv has appended a row in this step
SavedNow == saved_successfully'

\* C14: after any sequence of saves, merges and deletes every row of the log
\* has exactly the ten columns in the fixed order, and each field of a saved
\* record lands in the column of its own name.
LogKeepsTenColumns ==
  /\ []TenColumnsInOrder
  /\ [][SavedNow =>
         RowOf(Named(csv_columns', csv_rows'[Len(csv_rows')]), parsed_data, notes_input,
               now)]_vars

\* a record was saved, a file merged, and a delete has just rewritten the log
LogKeepsTenColumnsWitness ==
  /\ rerun /\ ~saved_successfully
  /\ text_input_key > 0
  /\ \E f \in DOMAIN merged_times : merged_times[f] > 0
  /\ csv_rows # <<>>
  /\ \E r \in 1..Len(csv_rows) : LogRow(r)["Timestamp"] = Timestamp(1)

\* the times file f was merged before this step
MergedBefore(f) == IF f \in DOMAIN merged_times THEN merged_times[f] ELSE 0

\* load_old_log has returned True for file f in this step
MergedNow(f) == f \in DOMAIN merged_times' /\ merged_times'[f] > MergedBefore(f)

\* no two lines of a file with these columns share a Timestamp
NoSharedTimestamp(columns, rows) ==
  \A r1, r2 \in 1..Len(rows) :
    r1 # r2 => Named(columns, rows[r1])["Timestamp"] # Named(columns, rows[r2])["Timestamp"]

\* the lines of file f under the ten columns, as a merge writes them
UploadedLines(f) ==
  CsvLines(WithRequiredColumns(read_csv(FILES[f].columns, FILES[f].lines)))

\* for every Timestamp that a line of the log and a line of file f share, the
\* log afterwards holds a line of f with that Timestamp
UploadedRowKept(f) ==
  \A r \in 1..Len(csv_rows) : \A u \in 1..Len(UploadedLines(f)) :
    LogRow(r)["Timestamp"] = Named(REQUIRED_COLUMNS, UploadedLines(f)[u])["Timestamp"] =>
      \E k \in 1..Len(csv_rows') : \E v \in 1..Len(UploadedLines(f)) :
        /\ csv_rows'[k] = UploadedLines(f)[v]
        /\ Named(csv_columns', csv_rows'[k])["Timestamp"] = LogRow(r)["Timestamp"]

\* C15: after every successful merge no two rows of the log share a
\* Timestamp, and where a row of the log and a row of the uploaded file share
\* one the uploaded file's row is kept, whether or not a log existed before.
MergePreventsDuplicates ==
  [][\A f \in DOMAIN FILES :
       MergedNow(f) =>
         /\ NoSharedTimestamp(csv_columns', csv_rows')
         /\ (\A g \in DOMAIN FILES : MergedNow(g) => g = f) => UploadedRowKept(f)]_vars

\* the same for merges into a log that exists
MergePreventsDuplicatesInLog ==
  [][\A f \in DOMAIN FILES :
       (csv_exists /\ MergedNow(f)) =>
         /\ NoSharedTimestamp(csv_columns', csv_rows')
         /\ (\A g \in DOMAIN FILES : MergedNow(g) => g = f) => UploadedRowKept(f)]_vars

\* "Delete Selected" was pressed in this step and delete_selected_mistakes
\* returned True: the step ends in st.rerun() without a save
Deleted == ~rerun /\ rerun' /\ ~saved_successfully'

\* "Delete Selected" was pressed in this step and delete_selected_mistakes
\* returned False: a click that leaves uploader, mode and selection as they are
DeleteFailed ==
  /\ show_delete_mode /\ selected_for_deletion # <<>>
  /\ clicks' = clicks + 1
  /\ ~rerun'
  /\ UNCHANGED <<uploader_key, show_delete_mode, selected_for_deletion>>

\* the lines of the log that are not at a selected index, in their order
Unselected(rows) ==
  KeepAt(rows, {i \in 1..Len(rows) : ~InList(selected_for_deletion, i - 1)}, 1)

\* C16: delete_selected_mistakes removes exactly the rows at the selected
\* indices and keeps all other rows in their original order; when it returns
\* False the log is left unchanged.
DeleteRemovesExactlySelected ==
  [][/\ Deleted => (csv_columns' = csv_columns /\ csv_rows' = Unselected(csv_rows))
     /\ DeleteFailed => csvVars' = csvVars]_vars

\* the Timestamps of the lines of a file with these columns
Timestamps(columns, rows) ==
  [r \in 1..Len(rows) |-> Named(columns, rows[r])["Timestamp"]]

\* the same for the rows as their Timestamps identify them
DeleteRemovesSelectedTimestamps ==
  [][/\ Deleted =>
          Timestamps(csv_columns', csv_rows') = Timestamps(csv_columns, Unselected(csv_rows))
     /\ DeleteFailed => csvVars' = csvVars]_vars

(***************************************************************************)
(* Properties of the uploader's callback (SpecLog).                        *)
(***************************************************************************)
\* the content of the uploader changes in this step: process_uploaded_log runs
CallbackRuns == uploader_key' # uploader_key

\* C17: whenever process_uploaded_log runs while a pending record is held in
\* session state, it merges nothing and leaves the log and the
\* files_processed flag unchanged.
PendingRecordBlocksUpload ==
  [][(CallbackRuns /\ parsed_data # None) =>
       /\ \A f \in DOMAIN FILES : ~MergedNow(f)
       /\ csvVars' = csvVars
       /\ files_processed' = files_processed]_vars

\* a readable file was put into the uploader while a record was pending: it
\* is in the uploader, unmerged, and the flag is still unset
PendingRecordBlocksUploadWitness ==
  /\ parsed_data # None
  /\ \E k \in 1..Len(uploader_key) :
       FILES[uploader_key[k]].readable /\ merged_times[uploader_key[k]] = 0
  /\ ~files_processed

\* the files in the uploader after the step
Uploaded == {uploader_key'[k] : k \in 1..Len(uploader_key')}

\* C18: when no record is pending, each file present in the uploader is
\* merged into the log exactly once: a file already merged is not merged
\* again while it stays uploaded, a file added later is still merged, and
\* emptying the uploader resets the files_processed flag.
EachUploadedFileMergedOnce ==
  [][(CallbackRuns /\ parsed_data = None) =>
       /\ \A f \in Uploaded : FILES[f].readable => merged_times'[f] = 1
       /\ \A f \in Uploaded : MergedNow(f) => MergedBefore(f) = 0
       /\ uploader_key' = <<>> => ~files_processed']_vars

\* the same without the file added later: no file is merged a second time,
\* the files found in the uploader while the flag is unset are merged, and
\* emptying the uploader resets the flag
UploadedFilesMergedWhileUnset ==
  [][(CallbackRuns /\ parsed_data = None) =>
       /\ ~files_processed => \A f \in Uploaded : FILES[f].readable => merged_times'[f] = 1
       /\ \A f \in Uploaded : MergedNow(f) => MergedBefore(f) = 0
       /\ uploader_key' = <<>> => ~files_processed']_vars

(***************************************************************************)
(* Properties of the delete mode on a log that fills the table (SpecPage). *)
(***************************************************************************)
\* C20: at the moment "Delete Selected" deletes rows, every index in
\* selected_for_deletion is the index of a row shown in the table, one of the
\* last ten rows of the log as it is then: no row is deleted that the user
\* cannot see as selected, also after rows were appended, merged or deleted
\* since the selection was made.
DeletesOnlyShownRows ==
  [][Deleted =>
       \A k \in 1..Len(selected_for_deletion) :
         selected_for_deletion[k] \in Shown(TheLog)]_vars

(***************************************************************************)
(* Properties of the selection (SpecLog).                                  *)
(***************************************************************************)
\* C21: at the end of every script run, delete mode being off implies that
\* selected_for_deletion is empty.
NoSelectionOutsideDeleteMode ==
  ~show_delete_mode => selected_for_deletion = <<>>

\* On the untouched two-row log, with nothing saved, uploaded or deleted, three
\* clicks have led back out of delete mode: the mode was switched on, a row
\* ticked, and the mode switched off again.
NoSelectionOutsideDeleteModeWitness ==
  /\ ~show_delete_mode
  /\ selected_for_deletion = <<>>
  /\ clicks = 3
  /\ ~rerun
  /\ uploader_key = <<>> /\ merged_times = <<>>
  /\ text_input_key = 0
  /\ Len(csv_rows) = 2

====
